---- MODULE Spec2Model ----
(***************************************************************************)
(* Model of the two command-line utilities of dpwh-contracts-dashboard:    *)
(*   - combine_json.py      (the JSON combiner, specification SpecA)       *)
(*   - extract_contracts.py (the contract extractor, specification SpecB)  *)
(***************************************************************************)
EXTENDS Integers, Sequences, FiniteSets, TLC

VARIABLES
    \* ---- combine_json.py ----
    fs,            \* the file system: physical path -> entry
    argDirectory,  \* --directory as given on the command line
    argOutput,     \* --output as given on the command line
    pc,            \* position of main()
    run,           \* number of the current invocation
    json_files,    \* main(): the scanned file list
    nextFile,      \* main(): position of the for loop in json_files
    combined,      \* main(): the list being extended
    error,         \* the exception that ended the run ("" when none)
    fsStart,       \* history: the file system when the current run started
    opened,        \* history: the paths opened for reading in the current run
    written,       \* history: run -> what write_combined_json dumped
    \* ---- extract_contracts.py ----
    current_id,    \* ContractHTMLParser._current_id
    values,        \* ContractHTMLParser.values
    phase,         \* "feed" while parser.feed runs, "assembled" after parse_contracts
    nEvents,       \* number of parser events delivered so far
    lastEvent,     \* history: the last event delivered to the parser
    openSpans,     \* history: ids of the span elements currently open (innermost last)
    frags,         \* history: id -> the text events received while it was current
    indices,       \* parse_contracts(): the sorted index list
    contracts,     \* parse_contracts(): the returned list
    contractIdx    \* history: the row index each returned record was built for

varsA == <<fs, argDirectory, argOutput, pc, run, json_files, nextFile, combined,
           error, fsStart, opened, written>>
varsB == <<current_id, values, phase, nEvents, lastEvent, openSpans, frags,
           indices, contracts, contractIdx>>
vars == <<varsA, varsB>>

(***************************************************************************)
(* Bounds of the model.                                                    *)
(***************************************************************************)
MaxArr == 2      \* longest array in an input file
MaxRuns == 2     \* invocations of the combiner in a row
MaxEvents == 5   \* parser events of a document (SpecScan)
MaxSpans == 2    \* span elements of a document (SpecB)
MaxIdx == 1      \* largest row index of the well-formed ids

(***************************************************************************)
(* Generic helpers.                                                        *)
(***************************************************************************)
\* Python None, as a reserved one-token sequence (no id and no text equals it).
None == <<"<None>">>

Range(s) == {s[k] : k \in 1..Len(s)}

\* str / tuple comparison of Python: lexicographic by code point.
LexLess(s, t) ==
    \E k \in 1..(Len(s) + 1) :
        /\ k <= Len(t)
        /\ \A j \in 1..(k - 1) : s[j] = t[j]
        /\ (k = Len(s) + 1 \/ s[k] < t[k])

(***************************************************************************)
(*                        combine_json.py                                  *)
(***************************************************************************)
\* File names, as sequences of code points.
DotJson == <<46, 106, 115, 111, 110>>                 \* ".json"
a_json == <<97>> \o DotJson                            \* "a.json"
b_json == <<98>> \o DotJson                            \* "b.json"
all_json == <<97, 108, 108>> \o DotJson                \* "all.json"
n_txt == <<110, 46, 116, 120, 116>>                    \* "n.txt"
Names == {a_json, b_json, all_json, n_txt}

\* Directories: "D" is the input directory, "L" a symbolic link to it,
\* "O" another existing directory, "X" a path that does not exist.
\* "" is the directory part of a relative path.
Path(d, n) == [dir |-> d, name |-> n]
PhysPaths == {Path(d, n) : d \in {"D", "O"}, n \in Names}

\* Directory entries.  A JSON text is modelled by what json.load makes of it:
\* "bad" (malformed), "array" (items = the elements) or "scalar" (any other
\* top-level value, val = the value).  JSON values are opaque integers;
\* ObjX stands for the object {"x": 1}.
ObjX == 0
NoVal == -1
Entry(t, k, its, v, tg) == [type |-> t, kind |-> k, items |-> its, val |-> v, target |-> tg]
Absent == Entry("absent", "none", <<>>, NoVal, <<>>)
BadFile == Entry("file", "bad", <<>>, NoVal, <<>>)
ArrayFile(its) == Entry("file", "array", its, NoVal, <<>>)
ScalarFile(v) == Entry("file", "scalar", <<>>, v, <<>>)
Link(n) == Entry("link", "none", <<>>, NoVal, n)

Prefix(n) == [k \in 1..n |-> k]
Contents == {BadFile, ScalarFile(ObjX)} \cup {ArrayFile(Prefix(n)) : n \in 0..MaxArr}

ResolveDir(d) == IF d = "L" THEN "D" ELSE d

\* Path.resolve(): the directory link and a final symbolic link are followed.
resolve(f, p) ==
    LET d == ResolveDir(p.dir)
        q == Path(d, p.name)
    IN  IF q \in PhysPaths /\ f[q].type = "link" THEN Path(d, f[q].target) ELSE q

\* Path.glob("*.json") on the directory: the entries whose name ends in .json.
EndsWith(n, suffix) ==
    /\ Len(n) >= Len(suffix)
    /\ SubSeq(n, Len(n) - Len(suffix) + 1, Len(n)) = suffix
glob(f, directory) ==
    {Path(directory, n) : n \in {m \in Names : /\ f[Path(directory, m)].type # "absent"
                                               /\ EndsWith(m, DotJson)}}

\* Mutant of sorted_paths: the list is left in descending order.
RECURSIVE sorted_paths_descending(_)
sorted_paths_descending(S) ==
    IF S = {} THEN <<>>
    ELSE LET m == CHOOSE p \in S : \A q \in S \ {p} : LexLess(q.name, p.name)
         IN  <<m>> \o sorted_paths_descending(S \ {m})

\* sorted() of a set of paths of one directory: ascending by name.
RECURSIVE sorted_paths(_)
sorted_paths(S) ==
    IF S = {} THEN <<>>
    ELSE LET m == CHOOSE p \in S : \A q \in S \ {p} : LexLess(p.name, q.name)
         IN  <<m>> \o sorted_paths(S \ {m})

\* Mutant of collect_json_files: the paths are compared without resolve().
collect_json_files_unresolved(f, directory, output_path) ==
    SelectSeq(sorted_paths(glob(f, directory)), LAMBDA path : path # output_path)

\* Mutant of collect_json_files: the output file is not excluded.
collect_json_files_all(f, directory, output_path) ==
    sorted_paths(glob(f, directory))

collect_json_files(f, directory, output_path) ==
    SelectSeq(sorted_paths(glob(f, directory)),
              LAMBDA path : resolve(f, path) # resolve(f, output_path))

\* Mutant of load_json_as_list: a file that does not parse is skipped.
load_json_as_list_skipping(f, path) ==
    LET e == f[resolve(f, path)]
    IN  IF e.type # "file" THEN [ok |-> FALSE, exc |-> "FileNotFoundError", items |-> <<>>]
        ELSE IF e.kind = "bad" THEN [ok |-> TRUE, exc |-> "", items |-> <<>>]
        ELSE IF e.kind = "array" THEN [ok |-> TRUE, exc |-> "", items |-> e.items]
        ELSE [ok |-> TRUE, exc |-> "", items |-> <<e.val>>]

\* path.open("r") + json.load + the list normalisation.
load_json_as_list(f, path) ==
    LET e == f[resolve(f, path)]
    IN  IF e.type # "file" THEN [ok |-> FALSE, exc |-> "FileNotFoundError", items |-> <<>>]
        ELSE IF e.kind = "bad" THEN [ok |-> FALSE, exc |-> "RuntimeError", items |-> <<>>]
        ELSE IF e.kind = "array" THEN [ok |-> TRUE, exc |-> "", items |-> e.items]
        ELSE [ok |-> TRUE, exc |-> "", items |-> <<e.val>>]

\* open("w") follows a symbolic link; json.dump(list(entries)) writes an array.
write_combined_json(f, output_path, entries) ==
    [f EXCEPT ![resolve(f, output_path)] = ArrayFile(entries)]

\* main(): output_path = args.output if absolute else directory / args.output
OutputPath(directory, out) == IF out.dir = "" THEN Path(directory, out.name) ELSE out

NoWrite == Absent

InitB0 ==
    /\ current_id = None
    /\ values = <<>>
    /\ phase = "feed"
    /\ nEvents = 0
    /\ lastEvent = [kind |-> "none", tag |-> "", id |-> None, data |-> <<>>]
    /\ openSpans = <<>>
    /\ frags = <<>>
    /\ indices = <<>>
    /\ contracts = <<>>
    /\ contractIdx = <<>>

InitA ==
    /\ \E d \in [Names -> Contents \cup {Absent} \cup {Link(n) : n \in Names}] :
          /\ \A n \in Names :
                d[n].type = "link" => /\ d[n].target # n
                                      /\ d[d[n].target].type # "link"
          /\ fs = [p \in PhysPaths |-> IF p.dir = "D" THEN d[p.name] ELSE Absent]
    /\ argDirectory \in {"D", "L", "X"}
    /\ argOutput \in {Path(d, n) : d \in {"", "L", "O"}, n \in Names}
    /\ pc = "start"
    /\ run = 1
    /\ json_files = <<>>
    /\ nextFile = 1
    /\ combined = <<>>
    /\ error = ""
    /\ fsStart = fs
    /\ opened = {}
    /\ written = [r \in 1..MaxRuns |-> NoWrite]
    /\ InitB0

\* main(), lines 68-77: resolve the arguments, check the directory, scan it.
Scan ==
    /\ pc = "start"
    /\ LET directory == ResolveDir(argDirectory)
       IN  IF directory = "X"
           THEN /\ pc' = "failed"
                /\ error' = "NotADirectoryError"
                /\ UNCHANGED json_files
           ELSE /\ pc' = "loading"
                /\ json_files' = collect_json_files(fs, directory, OutputPath(directory, argOutput))
                /\ UNCHANGED error
    /\ nextFile' = 1
    /\ combined' = <<>>
    /\ UNCHANGED <<fs, argDirectory, argOutput, run, fsStart, opened, written, varsB>>

\* main(), lines 78-79: one iteration of the loop whose load succeeds.
LoadOk ==
    /\ pc = "loading"
    /\ nextFile <= Len(json_files)
    /\ LET r == load_json_as_list(fs, json_files[nextFile])
       IN  /\ r.ok
           /\ combined' = combined \o r.items
    /\ opened' = opened \cup {json_files[nextFile]}
    /\ nextFile' = nextFile + 1
    /\ UNCHANGED <<fs, argDirectory, argOutput, pc, run, json_files, error, fsStart,
                   written, varsB>>

\* main(), lines 78-79: one iteration of the loop whose load raises.
LoadRaise ==
    /\ pc = "loading"
    /\ nextFile <= Len(json_files)
    /\ LET r == load_json_as_list(fs, json_files[nextFile])
       IN  /\ ~r.ok
           /\ error' = r.exc
    /\ opened' = opened \cup {json_files[nextFile]}
    /\ pc' = "failed"
    /\ UNCHANGED <<fs, argDirectory, argOutput, run, json_files, nextFile, combined,
                   fsStart, written, varsB>>

\* main(), lines 81-83: the loop is over, write the output.
WriteOutput ==
    /\ pc = "loading"
    /\ nextFile > Len(json_files)
    /\ fs' = write_combined_json(fs, OutputPath(ResolveDir(argDirectory), argOutput), combined)
    /\ written' = [written EXCEPT ![run] = ArrayFile(combined)]
    /\ pc' = "done"
    /\ UNCHANGED <<argDirectory, argOutput, run, json_files, nextFile, combined, error,
                   fsStart, opened, varsB>>

\* The program is invoked again with the same arguments.
Rerun ==
    /\ pc \in {"done", "failed"}
    /\ run < MaxRuns
    /\ run' = run + 1
    /\ pc' = "start"
    /\ json_files' = <<>>
    /\ nextFile' = 1
    /\ combined' = <<>>
    /\ error' = ""
    /\ fsStart' = fs
    /\ opened' = {}
    /\ UNCHANGED <<fs, argDirectory, argOutput, written, varsB>>

NextA == Scan \/ LoadOk \/ LoadRaise \/ WriteOutput \/ Rerun

SpecA == InitA /\ [][NextA]_vars

(***************************************************************************)
(*                      extract_contracts.py                               *)
(***************************************************************************)
\* An id is a sequence of tokens: "_", a decimal digit, the newline, or a
\* word without underscore.  A text is a sequence of tokens: the space or a
\* word without white space.
Digits == <<"0", "1", "2", "3", "4", "5", "6", "7", "8", "9">>
IsDigit(c) == c \in Range(Digits)
DigitVal(c) == CHOOSE d \in 0..9 : Digits[d + 1] = c

\* str(idx) of a non-negative integer.
RECURSIVE str_of(_)
str_of(n) == IF n < 10 THEN <<Digits[n + 1]>> ELSE str_of(n \div 10) \o <<Digits[(n % 10) + 1]>>

\* int(digits)
RECURSIVE int_of(_)
int_of(ds) == IF ds = <<>> THEN 0 ELSE 10 * int_of(SubSeq(ds, 1, Len(ds) - 1)) + DigitVal(ds[Len(ds)])

FIELD_ID_MAP == <<
    [field |-> "contract_id",               mid |-> "lblCustomerId"],
    [field |-> "contract_description",      mid |-> "lblContactName"],
    [field |-> "contractor",                mid |-> "lblCountry"],
    [field |-> "implementing_office",       mid |-> "Label5"],
    [field |-> "source_of_funds",           mid |-> "Label6"],
    [field |-> "contract_cost_php",         mid |-> "Label2"],
    [field |-> "contract_effectivity_date", mid |-> "Label3"],
    [field |-> "contract_expiry_date",      mid |-> "Label4"],
    [field |-> "status",                    mid |-> "Label7"],
    [field |-> "percent_accomplishment",    mid |-> "Label1"] >>

\* id_template.format(idx=idx) of the template "Repeater1_<mid>_{idx}".
format(mid, idx) == <<"Repeater1", "_", mid, "_">> \o str_of(idx)

\* INDEX_PATTERN.match(element_id) for r"Repeater1_[^_]+_(\d+)$": match()
\* anchors at the start; "$" matches at the end of the string and also just
\* before a newline that ends the string.  The result is group(1), or None.
INDEX_PATTERN_match(id) ==
    LET ends == {Len(id)} \cup (IF Len(id) > 0 /\ id[Len(id)] = "\n" THEN {Len(id) - 1} ELSE {})
        hits == {<<k, m>> \in (3..Len(id)) \X ends :
                    /\ id[1] = "Repeater1" /\ id[2] = "_"
                    /\ k >= 4 /\ id[k] = "_"
                    /\ \A j \in 3..(k - 1) : id[j] # "_"
                    /\ m > k
                    /\ \A j \in (k + 1)..m : IsDigit(id[j])}
    IN  IF hits = {} THEN None
        ELSE LET h == CHOOSE x \in hits : TRUE IN SubSeq(id, h[1] + 1, h[2])

\* sorted() of a set of integers.
RECURSIVE sorted_ints(_)
sorted_ints(S) ==
    IF S = {} THEN <<>>
    ELSE LET m == CHOOSE x \in S : \A y \in S : x <= y IN <<m>> \o sorted_ints(S \ {m})

\* tag.lower()
lower(tag) == IF tag = "SPAN" THEN "span" ELSE tag

\* data.strip()
RECURSIVE strip(_)
strip(d) ==
    IF d = <<>> THEN <<>>
    ELSE IF Head(d) = " " THEN strip(Tail(d))
    ELSE IF d[Len(d)] = " " THEN strip(SubSeq(d, 1, Len(d) - 1))
    ELSE d

\* The parser's state as a value.
Parser(cur, vals) == [cur |-> cur, vals |-> vals]

\* Mutant of handle_starttag: the accumulated text is reset on every start tag.
handle_starttag_resetting(st, tag, element_id) ==
    IF lower(tag) # "span" THEN st
    ELSE IF element_id = None \/ element_id = <<>> THEN st
    ELSE Parser(element_id, (element_id :> <<>>) @@ st.vals)

\* ContractHTMLParser.handle_starttag; element_id is attr_dict.get("id").
handle_starttag(st, tag, element_id) ==
    IF lower(tag) # "span" THEN st
    ELSE IF element_id = None \/ element_id = <<>> THEN st
    ELSE Parser(element_id,
                IF element_id \in DOMAIN st.vals THEN st.vals
                ELSE (element_id :> <<>>) @@ st.vals)

\* Mutant of handle_data: the text is appended without strip().
handle_data_unstripped(st, data) ==
    IF st.cur = None THEN st
    ELSE IF strip(data) = <<>> THEN st
         ELSE IF st.vals[st.cur] # <<>>
              THEN Parser(st.cur, [st.vals EXCEPT ![st.cur] = @ \o <<" ">> \o data])
              ELSE Parser(st.cur, [st.vals EXCEPT ![st.cur] = data])

\* ContractHTMLParser.handle_data
handle_data(st, data) ==
    IF st.cur = None THEN st
    ELSE LET text == strip(data)
         IN  IF text = <<>> THEN st
             ELSE IF st.vals[st.cur] # <<>>
                  THEN Parser(st.cur, [st.vals EXCEPT ![st.cur] = @ \o <<" ">> \o text])
                  ELSE Parser(st.cur, [st.vals EXCEPT ![st.cur] = text])

\* Mutant of handle_endtag: the current id is kept.
handle_endtag_keeping(st, tag) == st

\* ContractHTMLParser.handle_endtag
handle_endtag(st, tag) ==
    IF lower(tag) = "span" THEN Parser(None, st.vals) ELSE st

\* raw_values.get(element_id)
get(vals, element_id) == IF element_id \in DOMAIN vals THEN vals[element_id] ELSE None

FieldNames == {FIELD_ID_MAP[k].field : k \in 1..Len(FIELD_ID_MAP)}
MidOf(f) == (CHOOSE k \in 1..Len(FIELD_ID_MAP) : FIELD_ID_MAP[k].field = f)

\* Mutant of build_record: a field whose identifier is missing gets no key.
build_record_sparse(vals, idx) ==
    LET full == [f \in FieldNames |-> get(vals, format(FIELD_ID_MAP[MidOf(f)].mid, idx))]
    IN  [f \in {g \in FieldNames : full[g] # None} |-> full[f]]

\* parse_contracts(), lines 73-77: the record of one index.
build_record(vals, idx) ==
    [f \in FieldNames |-> get(vals, format(FIELD_ID_MAP[MidOf(f)].mid, idx))]

\* Mutant of truthy: only None is falsy.
truthy_unless_none(v) == v # None

\* Truth value of a str-or-None.
truthy(v) == v # None /\ v # <<>>

\* record.get("contract_id")
record_get(rec, f) == IF f \in DOMAIN rec THEN rec[f] ELSE None

\* parse_contracts(), lines 67-69.
compute_indices(vals) ==
    sorted_ints({int_of(INDEX_PATTERN_match(id)) :
                    id \in {k \in DOMAIN vals : INDEX_PATTERN_match(k) # None}})

\* parse_contracts(), lines 71-80: the indices whose record is kept.
kept_indices(vals, idxs) ==
    SelectSeq(idxs, LAMBDA i : truthy(record_get(build_record(vals, i), "contract_id")))

\* Events and inputs.
Tags == {"span", "SPAN", "div"}
CustId(i) == <<"Repeater1", "_", "lblCustomerId", "_">> \o str_of(i)
ScanIds == {CustId(0), CustId(1)}
StartEvents ==
    {[tag |-> t, id |-> i] : t \in {"span", "SPAN"}, i \in ScanIds \cup {None, <<>>}}
    \cup {[tag |-> "div", id |-> CustId(0)]}
DataSet == { <<>>, <<" ", " ">>, <<"C-1">>, <<" ", "y", " ">>, <<"C-1", " ", "y">> }

\* Ids of the documents fed to parse_contracts.
AsmIds ==
    {format(m, i) : m \in {"lblCustomerId", "Label1"}, i \in 0..MaxIdx}
    \cup { <<"Repeater1", "_", "lblCustomerId", "_", "0", "1">>,      \* leading zero
           <<"Repeater1", "_", "lblCustomerId", "_", "1", "\n">>,     \* newline at the end
           <<"Repeater1", "_", "Unmapped", "_", "7">>,                \* no field uses it
           <<"Repeater1", "_", "lbl", "_", "CustomerId", "_", "8">>,  \* underscore in the middle
           <<"Other", "_", "lblCustomerId", "_", "9">>,               \* other prefix
           <<"Repeater1", "_", "lblCustomerId">> }                    \* no trailing integer

Event(k, t, i, d) == [kind |-> k, tag |-> t, id |-> i, data |-> d]

InitA0 ==
    /\ fs = [p \in PhysPaths |-> Absent]
    /\ argDirectory = "X"
    /\ argOutput = Path("", all_json)
    /\ pc = "idle"
    /\ run = 1
    /\ json_files = <<>>
    /\ nextFile = 1
    /\ combined = <<>>
    /\ error = ""
    /\ fsStart = fs
    /\ opened = {}
    /\ written = [r \in 1..MaxRuns |-> NoWrite]

InitScan ==
    /\ InitA0
    /\ InitB0

\* frags after a text event: recorded under the id that was current.
FragsAfter(fr, cur, data) ==
    IF cur = None THEN fr
    ELSE IF cur \in DOMAIN fr THEN [fr EXCEPT ![cur] = Append(@, data)]
    ELSE (cur :> <<data>>) @@ fr

\* A start tag arrives: handle_starttag(tag, attrs).
StartTag(ev) ==
    /\ phase = "feed"
    /\ nEvents < MaxEvents
    /\ LET st == handle_starttag(Parser(current_id, values), ev.tag, ev.id)
       IN  /\ current_id' = st.cur
           /\ values' = st.vals
    /\ openSpans' = IF lower(ev.tag) = "span" THEN Append(openSpans, ev.id) ELSE openSpans
    /\ lastEvent' = Event("start", ev.tag, ev.id, <<>>)
    /\ nEvents' = nEvents + 1
    /\ UNCHANGED <<phase, frags, indices, contracts, contractIdx, varsA>>

\* Character data arrives: handle_data(data).
Data(d) ==
    /\ phase = "feed"
    /\ nEvents < MaxEvents
    /\ LET st == handle_data(Parser(current_id, values), d)
       IN  /\ current_id' = st.cur
           /\ values' = st.vals
    /\ frags' = FragsAfter(frags, current_id, d)
    /\ lastEvent' = Event("data", "", None, d)
    /\ nEvents' = nEvents + 1
    /\ UNCHANGED <<phase, openSpans, indices, contracts, contractIdx, varsA>>

\* An end tag arrives: handle_endtag(tag).
EndTag(t) ==
    /\ phase = "feed"
    /\ nEvents < MaxEvents
    /\ LET st == handle_endtag(Parser(current_id, values), t)
       IN  /\ current_id' = st.cur
           /\ values' = st.vals
    /\ openSpans' = IF lower(t) = "span" /\ openSpans # <<>>
                    THEN SubSeq(openSpans, 1, Len(openSpans) - 1) ELSE openSpans
    /\ lastEvent' = Event("end", t, None, <<>>)
    /\ nEvents' = nEvents + 1
    /\ UNCHANGED <<phase, frags, indices, contracts, contractIdx, varsA>>

NextScan ==
    \/ \E ev \in StartEvents : StartTag(ev)
    \/ \E d \in DataSet : Data(d)
    \/ \E t \in Tags : EndTag(t)

SpecScan == InitScan /\ [][NextScan]_vars

\* parser.feed() reaches the element <span id=...>data</span>: the three
\* handlers run in a row.
FeedSpan(element_id, d) ==
    /\ phase = "feed"
    /\ nEvents < 3 * MaxSpans
    /\ LET st1 == handle_starttag(Parser(current_id, values), "span", element_id)
           st2 == handle_data(st1, d)
           st3 == handle_endtag(st2, "span")
       IN  /\ current_id' = st3.cur
           /\ values' = st3.vals
           /\ frags' = FragsAfter(frags, st1.cur, d)
    /\ lastEvent' = Event("end", "span", None, <<>>)
    /\ nEvents' = nEvents + 3
    /\ UNCHANGED <<phase, openSpans, indices, contracts, contractIdx, varsA>>

\* parse_contracts(), lines 65-82, once parser.feed() has returned.
Assemble ==
    /\ phase = "feed"
    /\ LET idxs == compute_indices(values)
           kept == kept_indices(values, idxs)
       IN  /\ indices' = idxs
           /\ contractIdx' = kept
           /\ contracts' = [k \in 1..Len(kept) |-> build_record(values, kept[k])]
    /\ phase' = "assembled"
    /\ UNCHANGED <<current_id, values, nEvents, lastEvent, openSpans, frags, varsA>>

NextB ==
    \/ \E i \in AsmIds, d \in DataSet : FeedSpan(i, d)
    \/ Assemble

SpecB == InitScan /\ [][NextB]_vars

(***************************************************************************)
(* Properties of combine_json.py (checked under SpecA).                    *)
(***************************************************************************)
output_path == OutputPath(ResolveDir(argDirectory), argOutput)
Scanned == pc \in {"loading", "done", "failed"} /\ error # "NotADirectoryError"
Malformed(p) == fsStart[resolve(fsStart, p)].kind = "bad"

\* C1: when a scanned file is malformed JSON the run never completes and the
\* file system (the output file included) stays as it was when the run
\* started; a run fails only with the file system untouched, and the output
\* is written only once every scanned file has been loaded successfully.
C1_NoOutputOnMalformed ==
    /\ (Scanned /\ \E k \in 1..Len(json_files) : Malformed(json_files[k]))
          => (pc # "done" /\ fs = fsStart /\ written[run] = NoWrite)
    /\ pc = "failed" => (fs = fsStart /\ written[run] = NoWrite)
    /\ (pc = "failed" /\ error = "RuntimeError") => Malformed(json_files[nextFile])
    /\ written[run] # NoWrite =>
          /\ nextFile = Len(json_files) + 1
          /\ \A k \in 1..Len(json_files) :
                /\ json_files[k] \in opened
                /\ fsStart[resolve(fsStart, json_files[k])].type = "file"
                /\ ~Malformed(json_files[k])

\* C1 witness: the run failed on a malformed file that is the last of at
\* least two scanned files, and the output file existed before the run.
C1_Witness ==
    /\ pc = "failed" /\ error = "RuntimeError"
    /\ Len(json_files) >= 2 /\ nextFile = Len(json_files)
    /\ fsStart[resolve(fsStart, output_path)].type = "file"
    /\ fs[resolve(fs, output_path)] = fsStart[resolve(fsStart, output_path)]

\* The normalized sequence of a scanned file, from the parsed value.
Normalized(p) ==
    LET e == fsStart[resolve(fsStart, p)]
    IN  IF e.kind = "array" THEN e.items ELSE <<e.val>>

RECURSIVE SumLen(_)
SumLen(S) ==
    IF S = {} THEN 0
    ELSE LET p == CHOOSE q \in S : TRUE IN Len(Normalized(p)) + SumLen(S \ {p})

\* C2: on a successful run the written array holds, for every scanned file,
\* that file's normalized sequence at the offset given by the total length of
\* the files whose name is lexicographically smaller, and nothing else: its
\* length is the sum of the lengths of the normalized sequences.
C2_OutputIsConcatenation ==
    pc = "done" =>
        LET S == Range(json_files)
            out == written[run].items
        IN  /\ Cardinality(S) = Len(json_files)
            /\ fs[resolve(fs, output_path)] = ArrayFile(out)
            /\ Len(out) = SumLen(S)
            /\ \A p \in S :
                  LET off == SumLen({q \in S : LexLess(q.name, p.name)})
                  IN  \A j \in 1..Len(Normalized(p)) : out[off + j] = Normalized(p)[j]

\* C2 witness: a.json = [1, 2] and b.json = {"x": 1} combined into [1, 2, {"x": 1}].
C2_Witness ==
    /\ pc = "done"
    /\ json_files = <<Path("D", a_json), Path("D", b_json)>>
    /\ fsStart[Path("D", a_json)] = ArrayFile(<<1, 2>>)
    /\ fsStart[Path("D", b_json)] = ScalarFile(ObjX)
    /\ written[run] = ArrayFile(<<1, 2, ObjX>>)

\* C3: no scanned path and no path opened for reading resolves to the path the
\* output file resolves to.
C3_OutputNeverRead ==
    \A p \in Range(json_files) \cup opened :
        resolve(fs, p) # resolve(fs, output_path)

\* C3 witness: the output was given through the directory link, existed as a
\* *.json file before the run, a second *.json entry is a link to it, and the
\* run read the other files and completed.
C3_Witness ==
    /\ pc = "done" /\ opened # {}
    /\ argOutput.dir = "L"
    /\ fsStart[Path("D", argOutput.name)].type = "file"
    /\ EndsWith(argOutput.name, DotJson)
    /\ \E n \in Names \ {argOutput.name} :
          /\ EndsWith(n, DotJson)
          /\ fsStart[Path("D", n)] = Link(argOutput.name)

StrictlyAscending(s) == \A j, k \in 1..Len(s) : j < k => s[j] < s[k]

\* C4 as stated: every returned record has exactly nine keys.
C4_NineKeys ==
    \A k \in 1..Len(contracts) : Cardinality(DOMAIN contracts[k]) = 9

\* C4, amended: every returned record has exactly the ten keys of the field
\* table, whichever identifiers were present; the value of a key whose
\* identifier is missing is None, otherwise it is the accumulated text.
C4_TenKeys ==
    \A k \in 1..Len(contracts) :
        /\ Cardinality(DOMAIN contracts[k]) = 10
        /\ DOMAIN contracts[k] =
              {"contract_id", "contract_description", "contractor", "implementing_office",
               "source_of_funds", "contract_cost_php", "contract_effectivity_date",
               "contract_expiry_date", "status", "percent_accomplishment"}
        /\ \A j \in 1..Len(FIELD_ID_MAP) :
              LET id == <<"Repeater1", "_", FIELD_ID_MAP[j].mid, "_">> \o str_of(contractIdx[k])
                  f == FIELD_ID_MAP[j].field
              IN  /\ f \in DOMAIN contracts[k]
                  /\ contracts[k][f] = IF id \in DOMAIN values THEN values[id] ELSE None

\* C4 witness: a returned record with a found field besides contract_id and
\* with a field whose identifier is missing.
C4_Witness ==
    /\ phase = "assembled"
    /\ \E k \in 1..Len(contracts) :
          /\ contracts[k]["percent_accomplishment"] \notin {None, <<>>}
          /\ contracts[k]["status"] = None

\* C5: after assembly there is a record for row index i exactly when the
\* identifier Repeater1_lblCustomerId_i has a non-empty accumulated text; the
\* records are in strictly ascending index order (so at most one per index)
\* and each carries the text of its index's identifier as contract_id.
C5_RecordIffContractId ==
    phase = "assembled" =>
        /\ Len(contracts) = Len(contractIdx)
        /\ StrictlyAscending(contractIdx)
        /\ \A i \in (0..(MaxIdx + 10)) \cup Range(contractIdx) :
              (i \in Range(contractIdx)) <=>
                  (CustId(i) \in DOMAIN values /\ values[CustId(i)] # <<>>)
        /\ \A k \in 1..Len(contracts) :
              contracts[k]["contract_id"] = values[CustId(contractIdx[k])]

\* C5 witness: Repeater1_lblCustomerId_0 holds "C-1", Repeater1_lblCustomerId_1
\* holds the empty text, and exactly one record, the one of index 0, is returned.
C5_Witness ==
    /\ phase = "assembled"
    /\ CustId(0) \in DOMAIN values /\ values[CustId(0)] = <<"C-1">>
    /\ CustId(1) \in DOMAIN values /\ values[CustId(1)] = <<>>
    /\ contractIdx = <<0>>
    /\ Len(contracts) = 1

\* The pattern as C7 words it: the whole key is Repeater1_, one non-empty
\* token without underscore, _, and decimal digits up to the very end.
WholeKeyMatch(id) ==
    \E k \in 4..(Len(id) - 1) :
        /\ id[1] = "Repeater1" /\ id[2] = "_" /\ id[k] = "_"
        /\ \A j \in 3..(k - 1) : id[j] # "_"
        /\ \A j \in (k + 1)..Len(id) : IsDigit(id[j])
WholeKeyCapture(id) ==
    LET k == CHOOSE k \in 4..(Len(id) - 1) :
                 id[k] = "_" /\ \A j \in (k + 1)..Len(id) : IsDigit(id[j])
    IN  int_of(SubSeq(id, k + 1, Len(id)))

\* C7: the index list is strictly ascending and holds exactly the integers
\* captured from the keys that match the pattern over the whole key.
C7_IndicesFromWholeKeyMatch ==
    phase = "assembled" =>
        /\ StrictlyAscending(indices)
        /\ Range(indices) = {WholeKeyCapture(k) : k \in {j \in DOMAIN values : WholeKeyMatch(j)}}

\* C8: an end tag of a span (any letter case) leaves current_id absent
\* whatever spans are open; while current_id is absent a text event leaves
\* the accumulated mapping unchanged, and current_id stays absent until a
\* span start tag carrying an id arrives.
C8_EndTagClears ==
    [][ /\ (lastEvent'.kind = "end" /\ lastEvent'.tag \in {"span", "SPAN"}) => current_id' = None
        /\ (current_id = None /\ lastEvent'.kind = "data") => values' = values
        /\ (current_id = None /\ current_id' # None) =>
              /\ lastEvent'.kind = "start" /\ lastEvent'.tag \in {"span", "SPAN"}
              /\ lastEvent'.id = current_id'
      ]_vars

\* C8 witness: an identified outer span is still open, an inner span has
\* been closed, and a non-blank text event has just been discarded.
C8_Witness ==
    /\ Len(openSpans) >= 1 /\ openSpans[1] \in ScanIds
    /\ current_id = None
    /\ lastEvent.kind = "data" /\ lastEvent.data = <<"C-1", " ", "y">>
    /\ values[openSpans[1]] = <<"y">>

\* The trimmed form of a text event, by positions: from its first to its last
\* non-space token.
Trimmed(d) ==
    LET nz == {k \in 1..Len(d) : d[k] # " "}
    IN  IF nz = {} THEN <<>>
        ELSE SubSeq(d, CHOOSE k \in nz : \A j \in nz : k <= j,
                       CHOOSE k \in nz : \A j \in nz : k >= j)

RECURSIVE JoinTrimmed(_)
JoinTrimmed(fs_) ==
    IF fs_ = <<>> THEN <<>>
    ELSE LET rest == JoinTrimmed(SubSeq(fs_, 1, Len(fs_) - 1))
             t == Trimmed(fs_[Len(fs_)])
         IN  IF t = <<>> THEN rest
             ELSE IF rest = <<>> THEN t
             ELSE rest \o <<" ">> \o t

\* C9: every identifier's accumulated text is the trimmed non-empty text
\* events received while it was current, in arrival order, joined by one
\* space; it neither begins nor ends with a space.
C9_JoinedBySingleSpace ==
    \A id \in DOMAIN values :
        /\ values[id] = JoinTrimmed(IF id \in DOMAIN frags THEN frags[id] ELSE <<>>)
        /\ values[id] # <<>> => (values[id][1] # " " /\ values[id][Len(values[id])] # " ")

\* C9 witness: an identifier received a padded text, a blank text and a
\* second text, and holds the two trimmed texts joined by one space.
C9_Witness ==
    \E id \in DOMAIN frags :
        /\ frags[id] = << <<" ", "y", " ">>, <<" ", " ">>, <<"C-1">> >>
        /\ values[id] = <<"y", " ", "C-1">>

IsPrefix(s, t) == Len(s) <= Len(t) /\ SubSeq(t, 1, Len(s)) = s

\* C10: no step removes a key of the accumulated mapping or changes a text
\* other than by appending to it; a start tag changes no existing entry, and
\* a span start tag carrying an id makes that id current, with the empty text
\* if it is new.
C10_StartTagFrame ==
    [][ /\ DOMAIN values \subseteq DOMAIN values'
        /\ \A id \in DOMAIN values : IsPrefix(values[id], values'[id])
        /\ lastEvent'.kind = "start" =>
              /\ \A id \in DOMAIN values : values'[id] = values[id]
              /\ (lastEvent'.tag \in {"span", "SPAN"} /\ lastEvent'.id \notin {None, <<>>}) =>
                    /\ current_id' = lastEvent'.id
                    /\ lastEvent'.id \in DOMAIN values'
                    /\ lastEvent'.id \notin DOMAIN values => values'[lastEvent'.id] = <<>>
                    /\ DOMAIN values' = DOMAIN values \cup {lastEvent'.id}
      ]_vars

\* C10 witness: a span start tag has just made current an id that already
\* holds text, while another id holds text too.
C10_Witness ==
    /\ lastEvent.kind = "start"
    /\ current_id = lastEvent.id
    /\ current_id \in DOMAIN values /\ values[current_id] # <<>>
    /\ \E other \in DOMAIN values \ {current_id} : values[other] # <<>>

====
